---- MODULE Spec2Model ----
(***************************************************************************)
(* Model of many-after8 (src/src/main.rs): a directory of JSON files is    *)
(* aggregated into a fixed-point ledger (read_all_jsons), which is then    *)
(* either reported (balances) or clamped into a mint plan whose negative   *)
(* is written back into the directory as an audit file (mint).             *)
(*                                                                         *)
(* TLC's integers are 32 bits wide, while the program computes with f64,   *)
(* i128 and u64.  Naturals are therefore sequences of base-10^4 limbs,     *)
(* least significant first, and an f64 is a sign, a 53-bit significand and *)
(* a binary exponent, with every f64 operation rounded to nearest, ties to *)
(* even, as IEEE 754 does.                                                 *)
(***************************************************************************)
EXTENDS Integers, Sequences, FiniteSets, TLC

(***************************************************************************)
(* Naturals of any size                                                    *)
(***************************************************************************)
Base == 10^4

\* The limbs of f as a sequence.
Pack(f) == f \o <<>>

\* The largest of a non-empty set of integers.
Max(S) == CHOOSE x \in S : \A y \in S : y <= x

\* a without its leading zero limbs.
NTrim(a) ==
  IF a = <<>> THEN <<>>
  ELSE SubSeq(a, 1, Max({0} \cup {i \in 1..Len(a) : a[i] # 0}))

\* A natural below Base^3.
NOfInt(n) == NTrim(<<n % Base, (n \div Base) % Base, n \div (Base * Base)>>)

NLimb(a, i) == IF 1 <= i /\ i <= Len(a) THEN a[i] ELSE 0

\* Whether limb i receives a carry, the limbs s at most 2 * Base - 2 each.
Carry(s, i) ==
  \E j \in 1..(i - 1) : s[j] >= Base /\ \A k \in (j + 1)..(i - 1) : s[k] = Base - 1

\* The natural of limbs s, each at most 2 * Base - 2 and the last one 0.
NCarry(s) ==
  IF s = <<>> THEN <<>>
  ELSE NTrim([i \in 1..Len(s) |-> (s[i] + IF Carry(s, i) THEN 1 ELSE 0) % Base])

NAddTo(a, b, n) == NCarry(Pack([i \in 1..(n + 1) |-> NLimb(a, i) + NLimb(b, i)]))

NAdd(a, b) ==
  IF a = <<>> THEN b
  ELSE IF b = <<>> THEN a
  ELSE NAddTo(a, b, IF Len(a) > Len(b) THEN Len(a) ELSE Len(b))

\* -1, 0 or 1 as a < b, a = b or a > b.
NCmp(a, b) ==
  IF Len(a) < Len(b) THEN -1
  ELSE IF Len(a) > Len(b) THEN 1
  ELSE IF a = b THEN 0
  ELSE IF \E i \in 1..Len(a) : a[i] > b[i] /\ \A k \in (i + 1)..Len(a) : a[k] = b[k]
       THEN 1
  ELSE -1

NLt(a, b) == NCmp(a, b) < 0
NLe(a, b) == NCmp(a, b) <= 0

\* Whether limb i of a - b lends to the limb below it.
Borrow(a, b, i) ==
  \E j \in 1..(i - 1) :
    a[j] < NLimb(b, j) /\ \A k \in (j + 1)..(i - 1) : a[k] = NLimb(b, k)

\* a - b, for a >= b.
NSub(a, b) ==
  IF b = <<>> THEN a
  ELSE NTrim([i \in 1..Len(a) |->
           (a[i] - NLimb(b, i) - (IF Borrow(a, b, i) THEN 1 ELSE 0) + Base) % Base])

\* a * s for 0 <= s <= Base.
NMulS(a, s) ==
  IF s = 0 \/ a = <<>> THEN <<>>
  ELSE NCarry(Pack([i \in 1..(Len(a) + 1) |->
                 ((NLimb(a, i) * s) % Base) + ((NLimb(a, i - 1) * s) \div Base)]))

NDbl(a) == NMulS(a, 2)

\* a * Base^k
NShift(a, k) == IF a = <<>> THEN <<>> ELSE [i \in 1..k |-> 0] \o a

\* The sum of a[i] * b[k + 1 - i] from i on: column k of the product.
RECURSIVE NColumn(_, _, _, _)
NColumn(a, b, k, i) ==
  IF i > Len(a) THEN 0
  ELSE a[i] * NLimb(b, k + 1 - i) + NColumn(a, b, k, i + 1)

\* The natural of the columns c, each below 2^31.
NOfColumns(c) ==
  NAdd(NCarry(Pack([k \in 1..(Len(c) + 1) |->
                      (NLimb(c, k) % Base) + ((NLimb(c, k - 1) \div Base) % Base)])),
       NTrim([k \in 1..(Len(c) + 2) |-> NLimb(c, k - 2) \div (Base * Base)]))

\* a * b, for a of at most 20 limbs.
NMulBy(a, b) ==
  NOfColumns(Pack([k \in 1..(Len(a) + Len(b)) |-> NColumn(a, b, k, 1)]))

NMul(a, b) ==
  IF a = <<>> \/ b = <<>> THEN <<>>
  ELSE IF Len(a) > Len(b) THEN NMulBy(b, a)
  ELSE NMulBy(a, b)

Two26 == NMulS(<<2^13>>, 2^13)
Two52 == NMul(Two26, Two26)
Two53 == NDbl(Two52)

\* 2^k
RECURSIVE NPow2(_)
NPow2(k) ==
  IF k < 13 THEN <<2^k>>
  ELSE IF k < 52 THEN NMulS(NPow2(k - 13), 2^13)
  ELSE NMul(NPow2(k - 52), Two52)

\* 10^k
NPow10(k) == [i \in 1..(k \div 4) |-> 0] \o <<10^(k % 4)>>

\* The digit q of r \div d from its estimate qh >= q, qh - q at most 2.
NQFix(r, d, qh) ==
  IF NLe(NMulS(d, qh), r) THEN qh
  ELSE IF NLe(NMulS(d, qh - 1), r) THEN qh - 1
  ELSE qh - 2

\* The estimate of r \div d from the two leading limbs of r and the leading
\* limb of d, which is at least Base \div 2; r < d * Base.
NQEst(r, d) ==
  IF ((NLimb(r, Len(d) + 1) * Base + NLimb(r, Len(d))) \div d[Len(d)]) > Base - 1
  THEN Base - 1
  ELSE ((NLimb(r, Len(d) + 1) * Base + NLimb(r, Len(d))) \div d[Len(d)])

\* One step of long division of a by d.  The state st is <<i, r, q>>: the limbs
\* i, i-1, .., 1 of a are still to come, r is the remainder and q the quotient
\* limbs so far.
NDivPut(d, i, r1, q, qd) == <<i - 1, NSub(r1, NMulS(d, qd)), <<qd>> \o q>>

NDivDigit(d, i, r1, q) == NDivPut(d, i, r1, q, NQFix(r1, d, NQEst(r1, d)))

NDivStep(a, d, st) == NDivDigit(d, st[1], NTrim(<<a[st[1]]>> \o st[2]), st[3])

RECURSIVE NDivAt(_, _, _)
NDivAt(a, d, st) == IF st[1] = 0 THEN st ELSE NDivAt(a, d, NDivStep(a, d, st))

\* a \div d for d > 0 with a leading limb of at least Base \div 2.  The
\* division starts with the leading limbs of a that d exceeds.
NDivNormal(a, d) ==
  IF Len(a) < Len(d) THEN <<>>
  ELSE NTrim(NDivAt(a, d, <<Len(a) + 1 - Len(d),
                            NTrim(SubSeq(a, Len(a) + 2 - Len(d), Len(a))),
                            <<>>>>)[3])

\* a \div d for d > 0: both are scaled up to make the leading limb of d large.
NDivBy(a, d, f) == NDivNormal(NMulS(a, f), NMulS(d, f))

NDiv(a, d) == NDivBy(a, d, Base \div (d[Len(d)] + 1))

\* <<quotient, remainder>> of a by d > 0.
NDivModOf(a, d, q) == <<q, NSub(a, NMul(q, d))>>

NDivMod(a, d) == NDivModOf(a, d, NDiv(a, d))

NIsOdd(a) == a # <<>> /\ a[1] % 2 = 1

\* The natural nearest to a / d, halves to the even one: q is a \div d and r
\* the remainder.
NRoundRem(q, r, d) ==
  IF NCmp(NDbl(r), d) > (IF NIsOdd(q) THEN -1 ELSE 0) THEN NAdd(q, <<1>>) ELSE q

NRoundOf(a, d, q) == IF q = <<>> THEN NRoundRem(q, a, d) ELSE NRoundRem(q, NSub(a, NMul(q, d)), d)

NDivRound(a, d) == NRoundOf(a, d, NDiv(a, d))

RECURSIVE ILog2(_)
ILog2(t) == IF t < 2 THEN 0 ELSE 1 + ILog2(t \div 2)

\* About 1000 * log2(a), for a > 0: within two bits of it.
NBitsEst(a) == (Len(a) - 1) * 13288 + 1000 * ILog2(a[Len(a)])

(***************************************************************************)
(* Signed integers: the i128 accumulator of read_all_jsons                 *)
(***************************************************************************)
IMake(neg, mag) == [neg |-> neg /\ mag # <<>>, mag |-> mag]

IZero == IMake(FALSE, <<>>)

IAdd(x, y) ==
  IF x.neg = y.neg THEN IMake(x.neg, NAdd(x.mag, y.mag))
  ELSE IF NLe(y.mag, x.mag) THEN IMake(x.neg, NSub(x.mag, y.mag))
  ELSE IMake(y.neg, NSub(y.mag, x.mag))

ILt(x, y) ==
  IF x.neg /\ ~y.neg THEN TRUE
  ELSE IF ~x.neg /\ y.neg THEN FALSE
  ELSE IF x.neg THEN NLt(y.mag, x.mag)
  ELSE NLt(x.mag, y.mag)

Two64 == NPow2(64)
U64Max == NSub(Two64, <<1>>)
I128MinMag == NPow2(127)
I128Max == NSub(I128MinMag, <<1>>)

(***************************************************************************)
(* f64: [k, s, m, e] is (-1)^s * m * 2^e for k = "fin", with m = 0 or      *)
(* 2^52 <= m < 2^53.  Subnormals (below 2^-1022) do not occur among the    *)
(* amounts of the runs checked.                                            *)
(***************************************************************************)
FZero(s) == [k |-> "fin", s |-> s, m |-> <<>>, e |-> 0]
FNaN == [k |-> "nan", s |-> 0, m |-> <<>>, e |-> 0]
FInf(s) == [k |-> "inf", s |-> s, m |-> <<>>, e |-> 0]

\* <<n, d, e>> with n/d * 2^e unchanged and 2^52 <= n/d < 2^53.
RECURSIVE FNormalize(_, _, _)
FNormalize(n, d, e) ==
  IF NLe(NMul(d, Two53), n) THEN FNormalize(n, NDbl(d), e + 1)
  ELSE IF NLt(n, NMul(d, Two52)) THEN FNormalize(NDbl(n), d, e - 1)
  ELSE <<n, d, e>>

\* The same, after one shift by the estimated distance.
FShiftBy(n, d, e, k) ==
  FNormalize(IF k < 0 THEN NMul(n, NPow2(-k)) ELSE n,
             IF k > 0 THEN NMul(d, NPow2(k)) ELSE d,
             e + k)

FShiftTo(n, d, e) == FShiftBy(n, d, e, ((NBitsEst(n) - NBitsEst(d)) \div 1000) - 52)

\* The f64 of sign s, significand q <= 2^53 and exponent x.
FPack(s, q, x) ==
  IF q = Two53
  THEN IF x + 1 > 971 THEN FInf(s) ELSE [k |-> "fin", s |-> s, m |-> Two52, e |-> x + 1]
  ELSE IF x > 971 THEN FInf(s) ELSE [k |-> "fin", s |-> s, m |-> q, e |-> x]

\* The f64 nearest to (-1)^s * n/d * 2^e (ties to even).
FRoundOf(s, t) ==
  IF t[3] > 971 THEN FInf(s) ELSE FPack(s, NDivRound(t[1], t[2]), t[3])

FRound(s, n, d, e) ==
  IF n = <<>> THEN FZero(s) ELSE FRoundOf(s, FShiftTo(n, d, e))

FOfNat(n) == FRound(0, n, <<1>>, 0)

FNeg(a) == IF a.k = "nan" THEN a ELSE [a EXCEPT !.s = 1 - a.s]

FIsZero(a) == a.k = "fin" /\ a.m = <<>>

FMul(a, b) ==
  IF a.k = "nan" \/ b.k = "nan" THEN FNaN
  ELSE IF a.k = "inf" \/ b.k = "inf"
       THEN IF FIsZero(a) \/ FIsZero(b) THEN FNaN ELSE FInf((a.s + b.s) % 2)
  ELSE FRound((a.s + b.s) % 2, NMul(a.m, b.m), <<1>>, a.e + b.e)

FDiv(a, b) ==
  IF a.k = "nan" \/ b.k = "nan" THEN FNaN
  ELSE IF a.k = "inf" THEN IF b.k = "inf" THEN FNaN ELSE FInf((a.s + b.s) % 2)
  ELSE IF b.k = "inf" THEN FZero((a.s + b.s) % 2)
  ELSE IF FIsZero(b) THEN IF FIsZero(a) THEN FNaN ELSE FInf((a.s + b.s) % 2)
  ELSE FRound((a.s + b.s) % 2, a.m, b.m, a.e - b.e)

\* |a| > |b| for finite a and b.
FMagGt(a, b) ==
  IF a.m = <<>> THEN FALSE
  ELSE IF b.m = <<>> THEN TRUE
  ELSE IF a.e # b.e THEN a.e > b.e
  ELSE NLt(b.m, a.m)

\* a > b as f64 compares: false when either is NaN.
FGt(a, b) ==
  IF a.k = "nan" \/ b.k = "nan" THEN FALSE
  ELSE IF a.k = "inf" THEN a.s = 0 /\ ~(b.k = "inf" /\ b.s = 0)
  ELSE IF b.k = "inf" THEN b.s = 1
  ELSE IF FIsZero(a) /\ FIsZero(b) THEN FALSE
  ELSE IF a.s # b.s THEN a.s = 0
  ELSE IF a.s = 0 THEN FMagGt(a, b)
  ELSE FMagGt(b, a)

\* The integer part of |a| for finite a, or lim when it is above lim
\* (lim < 2^bits).
FTruncMag(a, lim, bits) ==
  IF a.m = <<>> THEN <<>>
  ELSE IF a.e >= 0
       THEN IF a.e + 53 > bits + 1 THEN lim
            ELSE NMul(a.m, NPow2(a.e))
  ELSE IF -a.e > 53 THEN <<>>
  ELSE NDiv(a.m, NPow2(-a.e))

NMin(a, b) == IF NLe(a, b) THEN a ELSE b

\* `x as i128`: truncates toward zero, saturates, NaN gives 0.
FToI128(a) ==
  IF a.k = "nan" THEN IZero
  ELSE IF a.s = 1
       THEN IMake(TRUE, IF a.k = "inf" THEN I128MinMag
                        ELSE NMin(FTruncMag(a, I128MinMag, 128), I128MinMag))
  ELSE IMake(FALSE, IF a.k = "inf" THEN I128Max
                    ELSE NMin(FTruncMag(a, I128Max, 128), I128Max))

\* `x as u64`: truncates toward zero, saturates (negatives to 0), NaN gives 0.
FToU64(a) ==
  IF a.k = "nan" THEN <<>>
  ELSE IF a.s = 1 THEN <<>>
  ELSE IF a.k = "inf" THEN U64Max
  ELSE NMin(FTruncMag(a, U64Max, 64), U64Max)

\* const DENOMINATOR: f64 = 1_000_000_000.0
DENOMINATOR == FOfNat(NPow10(9))

(***************************************************************************)
(* Text: a string is a sequence of one-character strings.                  *)
(***************************************************************************)
Digits == <<"0", "1", "2", "3", "4", "5", "6", "7", "8", "9">>

IsDigit(c) == \E i \in 1..10 : Digits[i] = c

DigitVal(c) == (CHOOSE i \in 1..10 : Digits[i] = c) - 1

\* The letters the number parser looks at, in both cases.
UpperCase == <<"A", "E", "F", "I", "N", "T", "Y">>
LowerCase == <<"a", "e", "f", "i", "n", "t", "y">>

ToLower(c) ==
  IF \E i \in 1..Len(UpperCase) : UpperCase[i] = c
  THEN LowerCase[CHOOSE i \in 1..Len(UpperCase) : UpperCase[i] = c]
  ELSE c

\* s.replace(',', "")
StripCommas(s) == SelectSeq(s, LAMBDA c : c # ",")

\* The first index from i on that holds no digit.
DigitEnd(s, i) ==
  IF i > Len(s) THEN i
  ELSE CHOOSE j \in i..(Len(s) + 1) :
         /\ \A k \in i..(j - 1) : IsDigit(s[k])
         /\ j = Len(s) + 1 \/ ~IsDigit(s[j])

\* The digit p places from the end of s (0 is the last), 0 beyond its start.
DigitAt(s, p) == IF p < Len(s) THEN DigitVal(s[Len(s) - p]) ELSE 0

\* The natural written by the digits s: four digits to a limb.
NOfDigits(s) ==
  NTrim([i \in 1..((Len(s) + 3) \div 4) |->
           DigitAt(s, 4 * i - 4) + 10 * DigitAt(s, 4 * i - 3)
           + 100 * DigitAt(s, 4 * i - 2) + 1000 * DigitAt(s, 4 * i - 1)])

\* Decimal exponents are kept within +-ExpLimit: beyond it every f64 is 0
\* or infinite.
ExpLimit == 400

\* The exponent n, or ExpLimit when it is more.
ExpOfNat(n) ==
  IF n = <<>> THEN 0
  ELSE IF Len(n) > 1 \/ n[1] > ExpLimit THEN ExpLimit
  ELSE n[1]

\* The f64 nearest to (-1)^sg * n * 10^x.
FOfDecimal(sg, n, x) ==
  IF n = <<>> THEN FZero(sg)
  ELSE IF x > ExpLimit THEN FInf(sg)
  ELSE IF x < -ExpLimit THEN FZero(sg)
  ELSE FRound(sg, IF x > 0 THEN NMul(n, NPow10(x)) ELSE n,
              IF x < 0 THEN NPow10(-x) ELSE <<1>>, 0)

\* The decimal a text writes, [ok, n, x] for n * 10^x:
\* digits [. digits] [e [sign] digits], with a digit before or after the point.
DecimalOf(t) ==
  LET i1   == DigitEnd(t, 1)
      dot  == i1 <= Len(t) /\ t[i1] = "."
      f0   == IF dot THEN i1 + 1 ELSE i1
      f1   == DigitEnd(t, f0)
      hasE == f1 <= Len(t) /\ ToLower(t[f1]) = "e"
      es   == f1 + 1 <= Len(t) /\ t[f1 + 1] \in {"+", "-"}
      e0   == IF es THEN f1 + 2 ELSE f1 + 1
      e1   == DigitEnd(t, e0)
      ex   == ExpOfNat(NOfDigits(SubSeq(t, e0, e1 - 1)))
      last == IF hasE THEN e1 ELSE f1
  IN  [ok |-> (i1 - 1) + (f1 - f0) > 0 /\ (hasE => e1 > e0) /\ last = Len(t) + 1,
       n  |-> NOfDigits(SubSeq(t, 1, i1 - 1) \o SubSeq(t, f0, f1 - 1)),
       x  |-> (IF ~hasE THEN 0 ELSE IF es /\ t[f1 + 1] = "-" THEN -ex ELSE ex)
              - (f1 - f0)]

ParseFail == [ok |-> FALSE, v |-> FNaN]

\* "inf", "infinity" and "nan" in any case, after the sign.
ParseInfNan(t, sg) ==
  LET w == [i \in 1..Len(t) |-> ToLower(t[i])]
  IN  IF w = <<"n", "a", "n">> THEN [ok |-> TRUE, v |-> FNaN]
      ELSE IF w = <<"i", "n", "f">> \/ w = <<"i", "n", "f", "i", "n", "i", "t", "y">>
           THEN [ok |-> TRUE, v |-> FInf(sg)]
      ELSE ParseFail

\* The text t after the sign sg.
ParseDecimal(t, sg, dec) ==
  IF dec.ok THEN [ok |-> TRUE, v |-> FOfDecimal(sg, dec.n, dec.x)]
  ELSE ParseInfNan(t, sg)

ParseUnsigned(t, sg) ==
  IF t = <<>> THEN ParseFail ELSE ParseDecimal(t, sg, DecimalOf(t))

\* str::parse::<f64>: [ok, v]
ParseF64(s) ==
  IF s = <<>> THEN ParseFail
  ELSE ParseUnsigned(IF Head(s) \in {"+", "-"} THEN Tail(s) ELSE s,
                     IF Head(s) = "-" THEN 1 ELSE 0)

\* The four decimal digits of a limb.
LimbDigits(x) ==
  <<Digits[(x \div 1000) + 1], Digits[((x \div 100) % 10) + 1],
    Digits[((x \div 10) % 10) + 1], Digits[(x % 10) + 1]>>

\* s without its leading zeros, but for the last digit.
DropZeros(s) ==
  SubSeq(s, CHOOSE i \in 1..Len(s) :
              /\ \A k \in 1..(i - 1) : s[k] = "0"
              /\ i = Len(s) \/ s[i] # "0",
         Len(s))

\* The digits of the limbs of a, the leading limb first.
LimbsText(a) ==
  Pack([p \in 1..(4 * Len(a)) |->
          LimbDigits(a[Len(a) - ((p - 1) \div 4)])[((p - 1) % 4) + 1]])

\* The decimal digits of a natural: u64's Display.
NText(a) == IF a = <<>> THEN <<"0">> ELSE DropZeros(LimbsText(a))

Zeros(k) == [i \in 1..k |-> "0"]

\* floor(log10(n/d)), from the estimate e2 * log10(2) of it.
FDecExp(n, d, e2) ==
  LET p0    == (e2 * 30103) \div 100000
      Ge(p) == NLe(IF p > 0 THEN NMul(d, NPow10(p)) ELSE d,
                   IF p < 0 THEN NMul(n, NPow10(-p)) ELSE n)
  IN  IF ~Ge(p0) THEN p0 - 1 ELSE IF Ge(p0 + 1) THEN p0 + 1 ELSE p0

\* n/d to k significant digits, p its decimal exponent: the nearest natural
\* to n/d * 10^(k-1-p).
FDigitsAt(n, d, p, k) ==
  NDivRound(IF k - 1 - p > 0 THEN NMul(n, NPow10(k - 1 - p)) ELSE n,
            IF k - 1 - p < 0 THEN NMul(d, NPow10(p + 1 - k)) ELSE d)

\* The fewest significant digits, among lo..hi, that parse back to the f64 a
\* (finite, not zero, |a| = n/d): how f64's Display chooses its digits.
RECURSIVE FShortest(_, _, _, _, _, _)
FShortest(a, n, d, p, lo, hi) ==
  IF lo = hi THEN lo
  ELSE LET mid == (lo + hi) \div 2
       IN  IF FOfDecimal(a.s, FDigitsAt(n, d, p, mid), p + 1 - mid) = a
           THEN FShortest(a, n, d, p, lo, mid)
           ELSE FShortest(a, n, d, p, mid + 1, hi)

\* Digits without the trailing zeros a scale can absorb: <<digits, scale>>.
FTrimBy(t, sc, z) == <<SubSeq(t, 1, Len(t) - z), sc - z>>

FTrimDigits(t, sc) ==
  FTrimBy(t, sc,
          Max({0} \cup {z \in 1..(Len(t) - 1) :
                 z <= sc /\ \A j \in 1..z : t[Len(t) + 1 - j] = "0"}))

\* The digits td[1], with the point td[2] places from their end.
FLayout(sign, td) ==
  IF td[2] <= 0 THEN sign \o td[1] \o Zeros(-td[2])
  ELSE IF Len(td[1]) > td[2]
       THEN sign \o SubSeq(td[1], 1, Len(td[1]) - td[2]) \o <<".">>
                 \o SubSeq(td[1], Len(td[1]) - td[2] + 1, Len(td[1]))
  ELSE sign \o <<"0", ".">> \o Zeros(td[2] - Len(td[1])) \o td[1]

FTextWith(sign, n, d, p, k) ==
  FLayout(sign, FTrimDigits(NText(FDigitsAt(n, d, p, k)), k - 1 - p))

FTextAt(a, sign, n, d, p) == FTextWith(sign, n, d, p, FShortest(a, n, d, p, 1, 17))

FTextOf(a, sign, n, d) == FTextAt(a, sign, n, d, FDecExp(n, d, a.e + 52))

\* f64's Display (to_string): never an exponent, the shortest digits that
\* parse back to the same f64.
FText(a) ==
  IF a.k = "nan" THEN <<"N", "a", "N">>
  ELSE IF a.k = "inf" THEN (IF a.s = 1 THEN <<"-">> ELSE <<>>) \o <<"i", "n", "f">>
  ELSE IF a.m = <<>> THEN (IF a.s = 1 THEN <<"-">> ELSE <<>>) \o <<"0">>
  ELSE FTextOf(a, IF a.s = 1 THEN <<"-">> ELSE <<>>,
               IF a.e >= 0 THEN NMul(a.m, NPow2(a.e)) ELSE a.m,
               IF a.e >= 0 THEN <<1>> ELSE NPow2(-a.e))

(***************************************************************************)
(* The program's data                                                      *)
(*                                                                         *)
(* A path is [stem, ts, ext]: ext "" is a name without an extension, and   *)
(* ts is the timestamp in the name of an audit file (0 in other names).    *)
(* A file is [kind, data]: kind "doc" is a JSON object, whose data lists   *)
(* its <<identifier, value>> pairs in key order (the BTreeMap's order);    *)
(* kind "garbage" is text serde_json rejects; kind "unreadable" cannot be  *)
(* read.  A value is [t, txt]: a number ("num") or string ("str") with its *)
(* text, or another JSON type.                                             *)
(***************************************************************************)
VARIABLES
  dir,      \* the directory: path -> file
  env,      \* [readable, creatable]: whether read_dir and File::create succeed
  scen,     \* [opts, jitter, runs]: the command lines and draws tried
  pc,       \* "idle", "scan", "ready", "done" or "fatal"
  run,      \* invocations started so far
  now,      \* the local clock, in seconds
  dir0,     \* the directory as this invocation found it
  listing,  \* directory entries read_dir has yet to yield
  balance,  \* read_all_jsons: identifier -> i128 accumulator
  ledger,   \* what read_all_jsons returned: identifier -> u64
  fatal,    \* the panic that ended this invocation
  out,      \* what this invocation printed on standard output
  cmd,      \* the subcommand of this invocation
  opts,     \* its MintOpt
  drawn,    \* mint: the factor gen_range gave each identifier
  to_mint,  \* mint: identifier -> amount
  prev,     \* the previous invocation, as it ended
  minted,   \* identifier -> total of the amounts of the non-dry-run mints
  orig      \* the ledger the first invocation aggregated

vars == <<dir, env, scen, pc, run, now, dir0, listing, balance, ledger, fatal,
          out, cmd, opts, drawn, to_mint, prev, minted, orig>>

\* The identifiers of the input files, in the order a BTreeMap keeps them.
IdOrder == <<"id1", "id2">>
Ids == {IdOrder[i] : i \in 1..Len(IdOrder)}

EmptyMap == [id \in {} |-> <<>>]

Path(stem, ext) == [stem |-> stem, ts |-> 0, ext |-> ext]
NoPath == Path("", "")

Num(txt) == [t |-> "num", txt |-> txt]
Str(txt) == [t |-> "str", txt |-> txt]
NoValue == [t |-> "none", txt |-> <<>>]

Doc(data) == [kind |-> "doc", data |-> data]

\* A panic: the line it is raised at, its format string, and what the
\* string is filled with.
Msg(site, text, value, path, id) ==
  [site |-> site, text |-> text, value |-> value, path |-> path, id |-> id]
NoMsg == Msg(0, "", NoValue, NoPath, "")

NoOut == [kind |-> "none", body |-> EmptyMap, pem |-> "", memo |-> ""]

NoOpts ==
  [max |-> <<>>, dry_run |-> FALSE, randomize |-> FALSE, memo |-> "",
   json |-> FALSE, pem |-> ""]

NoPrev ==
  [pc |-> "idle", cmd |-> "none", opts |-> NoOpts, ledger |-> EmptyMap,
   to_mint |-> EmptyMap, out |-> NoOut, now |-> 0]

(***************************************************************************)
(* read_all_jsons                                                          *)
(***************************************************************************)
\* Lines 73-79: the f64 of a value, [typed, ok, v].
TokensOf(value, r) == [typed |-> TRUE, ok |-> value.t = "num" \/ r.ok, v |-> r.v]

Tokens(value) ==
  IF value.t \notin {"num", "str"} THEN [typed |-> FALSE, ok |-> FALSE, v |-> FNaN]
  ELSE TokensOf(value, ParseF64(IF value.t = "str" THEN StripCommas(value.txt)
                                ELSE value.txt))

\* The sanity check, were it written with >= for >.
OversizeOrEqual(tokens) == ~FGt(DENOMINATOR, tokens)

\* Line 83: the sanity check.
Oversize(tokens) == FGt(tokens, DENOMINATOR)

\* Line 87: (tokens * DENOMINATOR) as i128
Scale(tokens) == FToI128(FMul(tokens, DENOMINATOR))

\* The accumulation, were it written with = for +=.
AccumulateOverwrite(bal, name, tokens) ==
  [id \in DOMAIN bal \cup {name} |-> IF id = name THEN tokens ELSE bal[id]]

\* Lines 88-92: balance.entry(name).or_default() += tokens
Accumulate(bal, name, tokens) ==
  [id \in DOMAIN bal \cup {name} |->
     IF id = name
     THEN IAdd(IF name \in DOMAIN bal THEN bal[name] ELSE IZero, tokens)
     ELSE bal[id]]

AmountText == "Invalid token amount '{}' in file '{:?}'"
TypeText == "Invalid value type '{}' in file '{:?}'"
LargeText == "Balance for '{}' is too large"
UnwrapNone == "called Option::unwrap() on a None value"
UnwrapErr == "called Result::unwrap() on an Err value: {:?}"

\* Lines 73-96: one pair of a document.  The state st of the loop is
\* [i, bal, fatal]: the pair to read next, the accumulators, the panic.
ReadPair(path, pair, st, tokens) ==
  IF ~tokens.typed
  THEN [st EXCEPT !.fatal = Msg(77, TypeText, pair[2], path, "")]
  ELSE IF ~tokens.ok
       THEN [st EXCEPT !.fatal = Msg(94, AmountText, pair[2], path, "")]
  ELSE IF Oversize(tokens.v)
       THEN [st EXCEPT !.fatal = Msg(84, AmountText, pair[2], path, "")]
  ELSE [i |-> st.i + 1, bal |-> Accumulate(st.bal, pair[1], Scale(tokens.v)),
        fatal |-> NoMsg]

\* Lines 72-96: the pairs of one document, in key order.
RECURSIVE ReadPairs(_, _, _)
ReadPairs(path, data, st) ==
  IF st.fatal # NoMsg \/ st.i > Len(data) THEN st
  ELSE ReadPairs(path, data, ReadPair(path, data[st.i], st, Tokens(data[st.i][2])))

\* Lines 67-97: one directory entry, [bal, fatal].
ReadOne(path, file, bal) ==
  IF path.ext = ""
  THEN [bal |-> bal, fatal |-> Msg(69, UnwrapNone, NoValue, NoPath, "")]
  ELSE IF path.ext # "json" THEN [bal |-> bal, fatal |-> NoMsg]
  ELSE IF file.kind = "unreadable"
       THEN [bal |-> bal, fatal |-> Msg(70, UnwrapErr, NoValue, NoPath, "")]
  ELSE IF file.kind = "garbage"
       THEN [bal |-> bal, fatal |-> Msg(71, UnwrapErr, NoValue, NoPath, "")]
  ELSE ReadPairs(path, file.data, [i |-> 1, bal |-> bal, fatal |-> NoMsg])

U64MaxI == IMake(FALSE, U64Max)

\* The size check, were it written with > for >=.
TooLargeStrict(v) == ILt(U64MaxI, v)

\* Line 103: v >= u64::MAX as i128
TooLarge(v) == ~ILt(v, U64MaxI)

\* The sign check, were it written with >= for >.
PositiveOrZero(v) == ~ILt(v, IZero)

\* Line 107: v > 0
Positive(v) == ILt(IZero, v)

\* Line 108: v as u64, the low 64 bits of v.
U64Wrap(neg, low) == IF neg /\ low # <<>> THEN NSub(Two64, low) ELSE low

U64OfI128(v) == U64Wrap(v.neg, NDivMod(v.mag, Two64)[2])

\* The identifiers of a map, in key order.
Keys(f) == SelectSeq(IdOrder, LAMBDA id : id \in DOMAIN f)

\* Lines 100-113: the filter over the accumulators, [fatal, ledger].
FilterOf(bal, big) ==
  IF big # <<>>
  THEN [fatal |-> Msg(104, LargeText, NoValue, NoPath, big[1]), ledger |-> EmptyMap]
  ELSE [fatal |-> NoMsg,
        ledger |-> [id \in {k \in DOMAIN bal : Positive(bal[k])} |->
                      U64OfI128(bal[id])]]

Filter(bal) == FilterOf(bal, SelectSeq(Keys(bal), LAMBDA id : TooLarge(bal[id])))

\* All orders read_dir may list a set of entries in.
RECURSIVE Perms(_)
Perms(S) ==
  IF S = {} THEN {<<>>}
  ELSE UNION {{<<x>> \o q : q \in Perms(S \ {x})} : x \in S}

RECURSIVE SomeOrder(_)
SomeOrder(S) ==
  IF S = {} THEN <<>>
  ELSE LET x == CHOOSE y \in S : TRUE IN <<x>> \o SomeOrder(S \ {x})

Reverse(q) == [i \in 1..Len(q) |-> q[Len(q) + 1 - i]]

\* Directories of more than MaxPermuted entries are listed in one order or
\* its reverse only.
MaxPermuted == 4

Orders(S) ==
  IF Cardinality(S) <= MaxPermuted THEN Perms(S)
  ELSE {SomeOrder(S), Reverse(SomeOrder(S))}

(***************************************************************************)
(* mint and balances                                                       *)
(***************************************************************************)
\* Line 137: (max * DENOMINATOR) as u64, max the f64 clap parsed.
MaxScaled(o) == FToU64(FMul(ParseF64(o.max).v, DENOMINATOR))

\* Lines 142-146: the cap of one identifier, max the scaled maximum and f the
\* factor drawn.
Cap(randomize, max, f) ==
  IF randomize THEN FToU64(FMul(FOfNat(max), f)) ELSE max

\* The clamp, were it written with max for min.
ClampUp(bal, cap) == IF NLe(bal, cap) THEN cap ELSE bal

\* Line 147: balance.min(max)
Clamp(bal, cap) == NMin(bal, cap)

\* Lines 139-149
PlanOf(led, randomize, max, fs) ==
  [id \in DOMAIN led |-> Clamp(led[id], Cap(randomize, max, fs[id]))]

Plan(led, o, fs) == PlanOf(led, o.randomize, MaxScaled(o), fs)

\* Lines 168-170: mint-%Y%m%d-%H%M%S.json, named after the second t.
AuditName(t) == [stem |-> "mint", ts |-> t, ext |-> "json"]

\* Line 180: (-((*amount as f64) / DENOMINATOR)).to_string()
AuditAmount(amount) == FText(FNeg(FDiv(FOfNat(amount), DENOMINATOR)))

\* Lines 175-183: the audit file of a plan.
AuditFile(plan) ==
  Doc([i \in 1..Len(Keys(plan)) |->
         <<Keys(plan)[i], Str(AuditAmount(plan[Keys(plan)[i]]))>>])

\* Lines 166-185: the directory after the audit file of second t is written.
WriteFile(d, path, file) ==
  [q \in DOMAIN d \cup {path} |-> IF q = path THEN file ELSE d[q]]

WriteAudit(d, t, plan) == WriteFile(d, AuditName(t), AuditFile(plan))

\* The output, were it printed inside the branch that writes the audit file.
RenderUnlessDryRun(o, plan) ==
  IF o.dry_run THEN NoOut
  ELSE IF o.json THEN [kind |-> "json", body |-> plan, pem |-> "", memo |-> ""]
  ELSE IF DOMAIN plan # {}
       THEN [kind |-> "command", body |-> plan, pem |-> o.pem, memo |-> o.memo]
  ELSE NoOut

\* Lines 187-203: what mint prints on standard output.
Render(o, plan) ==
  IF o.json THEN [kind |-> "json", body |-> plan, pem |-> "", memo |-> ""]
  ELSE IF DOMAIN plan # {}
       THEN [kind |-> "command", body |-> plan, pem |-> o.pem, memo |-> o.memo]
  ELSE NoOut

\* Lines 213-217: what balances prints.
Report(led) ==
  [kind |-> "balances",
   body |-> [id \in {k \in DOMAIN led : led[k] # <<>>} |-> led[id]],
   pem |-> "", memo |-> ""]

AddMinted(tot, plan) ==
  [id \in Ids |-> IF id \in DOMAIN plan THEN NAdd(tot[id], plan[id]) ELSE tot[id]]

\* The factor of an identifier when randomize is off: none is drawn.
NoDraw == FZero(0)

(***************************************************************************)
(* The state machine: one invocation of the program after another over     *)
(* the same directory.                                                     *)
(***************************************************************************)
InitWith(dirs, envs, scens) ==
  /\ dir \in dirs
  /\ env \in envs
  /\ scen \in scens
  /\ pc = "idle"
  /\ run = 0
  /\ now = 1
  /\ dir0 = dir
  /\ listing = <<>>
  /\ balance = EmptyMap
  /\ ledger = EmptyMap
  /\ fatal = NoMsg
  /\ out = NoOut
  /\ cmd = "none"
  /\ opts = NoOpts
  /\ drawn = EmptyMap
  /\ to_mint = EmptyMap
  /\ prev = NoPrev
  /\ minted = [id \in Ids |-> <<>>]
  /\ orig = EmptyMap

\* main, line 224 and lines 64-66: a new process starts and opens the
\* directory; the clock may have moved on since the last one.
Start ==
  /\ pc \in {"idle", "done", "fatal"}
  /\ run < scen.runs
  /\ \E order \in Orders(DOMAIN dir), tick \in {0, 1} :
       /\ (pc = "idle" => tick = 0)
       /\ now' = now + tick
       /\ listing' = IF env.readable THEN order ELSE <<>>
  /\ run' = run + 1
  /\ prev' = IF pc = "idle" THEN NoPrev
             ELSE [pc |-> pc, cmd |-> cmd, opts |-> opts, ledger |-> ledger,
                   to_mint |-> to_mint, out |-> out, now |-> now]
  /\ pc' = IF env.readable THEN "scan" ELSE "fatal"
  /\ fatal' = IF env.readable THEN NoMsg
              ELSE Msg(66, UnwrapErr, NoValue, NoPath, "")
  /\ dir0' = dir
  /\ balance' = EmptyMap
  /\ ledger' = EmptyMap
  /\ out' = NoOut
  /\ cmd' = "none"
  /\ opts' = NoOpts
  /\ drawn' = EmptyMap
  /\ to_mint' = EmptyMap
  /\ UNCHANGED <<dir, env, scen, minted, orig>>

\* Lines 66-98: one turn of the loop over the directory.
ReadEntry ==
  /\ pc = "scan"
  /\ listing # <<>>
  /\ \E r \in {ReadOne(Head(listing), dir[Head(listing)], balance)} :
       /\ listing' = Tail(listing)
       /\ balance' = r.bal
       /\ fatal' = r.fatal
       /\ pc' = IF r.fatal = NoMsg THEN "scan" ELSE "fatal"
  /\ UNCHANGED <<dir, env, scen, run, now, dir0, ledger, out, cmd, opts, drawn,
                 to_mint, prev, minted, orig>>

\* Lines 100-113: the ledger read_all_jsons returns, or its panic.
Finish ==
  /\ pc = "scan"
  /\ listing = <<>>
  /\ \E r \in {Filter(balance)} :
       /\ fatal' = r.fatal
       /\ ledger' = r.ledger
       /\ pc' = IF r.fatal = NoMsg THEN "ready" ELSE "fatal"
       /\ orig' = IF run = 1 /\ r.fatal = NoMsg THEN r.ledger ELSE orig
  /\ UNCHANGED <<dir, env, scen, run, now, dir0, listing, balance, out, cmd,
                 opts, drawn, to_mint, prev, minted>>

\* Lines 116-206: mint, with the options o and the factors fs drawn.
Mint ==
  /\ pc = "ready"
  /\ \E o \in scen.opts :
       \E fs \in [DOMAIN ledger -> IF o.randomize THEN scen.jitter ELSE {NoDraw}] :
         \E plan \in {Plan(ledger, o, fs)} :
           /\ cmd' = "mint"
           /\ opts' = o
           /\ drawn' = fs
           /\ to_mint' = plan
           /\ IF ~o.dry_run /\ ~env.creatable
              THEN /\ pc' = "fatal"
                   /\ fatal' = Msg(173, UnwrapErr, NoValue, NoPath, "")
                   /\ UNCHANGED <<dir, out, minted>>
              ELSE /\ pc' = "done"
                   /\ dir' = IF o.dry_run THEN dir ELSE WriteAudit(dir, now, plan)
                   /\ out' = Render(o, plan)
                   /\ minted' = IF o.dry_run THEN minted ELSE AddMinted(minted, plan)
                   /\ UNCHANGED fatal
  /\ UNCHANGED <<env, scen, run, now, dir0, listing, balance, ledger, prev, orig>>

\* Lines 208-219: balances.
Balances ==
  /\ pc = "ready"
  /\ cmd' = "balances"
  /\ out' = Report(ledger)
  /\ pc' = "done"
  /\ UNCHANGED <<dir, env, scen, run, now, dir0, listing, balance, ledger, fatal,
                 opts, drawn, to_mint, prev, minted, orig>>

Next == Start \/ ReadEntry \/ Finish \/ Mint \/ Balances

(***************************************************************************)
(* Inputs: the directories, command lines and draws the runs start from    *)
(***************************************************************************)
DirOf(entries) ==
  [q \in {e[1] : e \in entries} |-> (CHOOSE e \in entries : e[1] = q)[2]]

\* A directory entry that is there with one of the files, or is not there.
Slot(path, files, optional) ==
  {{<<path, f>>} : f \in files} \cup (IF optional THEN {{}} ELSE {})

DirsOf(a, b, c, d) ==
  {DirOf(w \cup x \cup y \cup z) : w \in a, x \in b, y \in c, z \in d}

Garbage == [kind |-> "garbage", data |-> <<>>]
Unreadable == [kind |-> "unreadable", data |-> <<>>]
PemFile == {{<<Path("key", "pem"), Garbage>>}}
NoSlot == {{}}

Fifty == Doc(<<<<"id1", Num(<<"5", "0">>)>>>>)
Mixed == Doc(<<<<"id1", Str(<<"3", "0", ".", "5">>)>>, <<"id2", Str(<<"1", ",", "2", "3", "4", ".", "5">>)>>>>)
Debit == Doc(<<<<"id1", Num(<<"-", "8", "0", ".", "5">>)>>, <<"id2", Num(<<"4", ".", "1">>)>>>>)
Owed == Doc(<<<<"id1", Str(<<"-", "8", "0", ".", "5">>)>>>>)
AtLimit == Doc(<<<<"id1", Str(<<"1", ",", "0", "0", "0", ",", "0", "0", "0", ",", "0", "0", "0">>)>>>>)
NotANumber == Doc(<<<<"id2", Str(<<"N", "a", "N">>)>>>>)
OverLimit == Doc(<<<<"id1", Num(<<"5">>)>>, <<"id2", Num(<<"1", "0", "0", "0", "0", "0", "0", "0", "0", "0", ".", "5">>)>>>>)
OverLimitText == Doc(<<<<"id1", Str(<<"1", ",", "0", "0", "0", ",", "0", "0", "0", ",", "0", "0", "1">>)>>>>)
BadText == Doc(<<<<"id2", Str(<<"n", "o", "t", "-", "a", "-", "n", "u", "m", "b", "e", "r">>)>>>>)
BadType == Doc(<<<<"id1", Num(<<"5">>)>>, <<"id2", [t |-> "bool", txt |-> <<"t", "r", "u", "e">>]>>>>)
NullType == Doc(<<<<"id1", [t |-> "null", txt |-> <<"n", "u", "l", "l">>]>>>>)
Large == Doc(<<<<"id1", Num(<<"2", "5", "0">>)>>, <<"id2", Num(<<"9", "9", ".", "5">>)>>>>)
Inexact == Doc(<<<<"id1", Num(<<"4", ".", "1">>)>>, <<"id2", Num(<<"8", "0", ".", "5">>)>>>>)

MintOpt(max, dry_run, randomize, memo, json) ==
  [max |-> max, dry_run |-> dry_run, randomize |-> randomize, memo |-> memo,
   json |-> json, pem |-> "key.pem"]

\* --max 100, the default.
Hundred == <<"1", "0", "0">>
Sixty == <<"6", "0">>

\* Draws of rand.gen_range(0.8..1.2): the low end, the middle, near the top.
Jitter == {ParseF64(<<"0", ".", "8">>).v, ParseF64(<<"1">>).v, ParseF64(<<"1", ".", "1", "9">>).v}

Works == [readable |-> TRUE, creatable |-> TRUE]
NoListing == [readable |-> FALSE, creatable |-> TRUE]
NoCreate == [readable |-> TRUE, creatable |-> FALSE]

\* How many times the program is run over the directory.
RunsOnce == 1
RunsTwice == 2
RunsThrice == 3

\* One invocation over directories of one to three input files.
InitAgg ==
  InitWith(DirsOf(Slot(Path("a", "json"), {Fifty, Mixed, Debit}, FALSE),
                  Slot(Path("b", "json"), {Fifty, Debit, AtLimit}, TRUE),
                  Slot(Path("c", "json"), {Mixed, Debit}, TRUE),
                  PemFile),
           {Works},
           {[opts |-> {MintOpt(Hundred, TRUE, FALSE, "", TRUE)}, jitter |-> Jitter,
             runs |-> RunsOnce]})

Spec == InitAgg /\ [][Next]_vars

\* One invocation over directories with an unsound entry, or in a directory
\* that cannot be listed or written.
InitErr ==
  InitWith(DirsOf(Slot(Path("a", "json"),
                       {Fifty, AtLimit, OverLimit, OverLimitText, NotANumber, BadText,
                        BadType, NullType, Garbage, Unreadable}, FALSE),
                  Slot(Path("b", "json"), {Mixed}, TRUE),
                  Slot(Path("README", ""), {Garbage}, TRUE),
                  PemFile),
           {Works, NoListing, NoCreate},
           {[opts |-> {MintOpt(Hundred, FALSE, FALSE, "", FALSE)}, jitter |-> Jitter,
             runs |-> RunsOnce]})

SpecErr == InitErr /\ [][Next]_vars

\* One mint, with and without randomize.
InitMint ==
  InitWith(DirsOf(Slot(Path("a", "json"), {Large, Inexact, Fifty}, FALSE),
                  Slot(Path("b", "json"), {Mixed}, TRUE),
                  NoSlot,
                  PemFile),
           {Works},
           {[opts |-> {MintOpt(Hundred, TRUE, FALSE, "", TRUE),
                       MintOpt(Sixty, TRUE, FALSE, "", FALSE),
                       MintOpt(Hundred, TRUE, TRUE, "", TRUE),
                       MintOpt(Sixty, FALSE, TRUE, "", FALSE)},
             jitter |-> Jitter, runs |-> RunsOnce]})

SpecMint == InitMint /\ [][Next]_vars

\* Two invocations, each with or without dry_run.
InitDry ==
  InitWith(DirsOf(Slot(Path("a", "json"), {Large, Fifty, Owed}, FALSE),
                  NoSlot, NoSlot, PemFile),
           {Works},
           {[opts |-> {MintOpt(Hundred, d, FALSE, m, j) :
                         d \in BOOLEAN, m \in {"", "thanks"}, j \in BOOLEAN},
             jitter |-> Jitter, runs |-> RunsTwice]})

SpecDry == InitDry /\ [][Next]_vars

\* A mint that writes its audit file, and one more invocation.
InitRuns ==
  InitWith(DirsOf(Slot(Path("a", "json"), {Inexact, Large, Fifty}, FALSE),
                  NoSlot, NoSlot, PemFile),
           {Works},
           {[opts |-> {MintOpt(Hundred, FALSE, FALSE, "", TRUE)}, jitter |-> Jitter,
             runs |-> RunsTwice]})

SpecRuns == InitRuns /\ [][Next]_vars

\* Three invocations over amounts the audit file writes exactly.
InitSame ==
  InitWith(DirsOf(Slot(Path("a", "json"), {Large}, FALSE),
                  Slot(Path("b", "json"), {Fifty}, TRUE),
                  NoSlot, PemFile),
           {Works},
           {[opts |-> {MintOpt(Hundred, FALSE, FALSE, "", TRUE)}, jitter |-> Jitter,
             runs |-> RunsThrice]})

SpecSame == InitSame /\ [][Next]_vars

\* Eighteen files of 10^9 tokens for one identifier and two more that bring
\* its balance to 2^64 - 2, 2^64 - 1 or 2^64.
Stems ==
  {"f01", "f02", "f03", "f04", "f05", "f06", "f07", "f08", "f09", "f10", "f11",
   "f12", "f13", "f14", "f15", "f16", "f17", "f18"}

BigDir(last) ==
  DirOf({<<Path(s, "json"), AtLimit>> : s \in Stems}
        \cup {<<Path("rest", "json"), Doc(<<<<"id1", Str(<<"4", "4", "6", ",", "7", "4", "4", ",", "0", "7", "3", ".", "7">>)>>>>)>>,
              <<Path("tail", "json"), Doc(<<<<"id1", Num(last)>>, <<"id2", Num(<<"5", "0">>)>>>>)>>})

InitBig ==
  InitWith({BigDir(<<"0", ".", "0", "0", "9", "5", "5", "1", "6", "1", "4">>), BigDir(<<"0", ".", "0", "0", "9", "5", "5", "1", "6", "1", "5">>), BigDir(<<"0", ".", "0", "0", "9", "5", "5", "1", "6", "1", "6">>)},
           {Works},
           {[opts |-> {MintOpt(Hundred, TRUE, FALSE, "", TRUE)}, jitter |-> Jitter,
             runs |-> RunsOnce]})

SpecBig == InitBig /\ [][Next]_vars

(***************************************************************************)
(* The claims                                                              *)
(***************************************************************************)
\* The input files read_all_jsons takes its pairs from.
Considered(d) == {q \in DOMAIN d : q.ext = "json" /\ d[q].kind = "doc"}

\* The values of the considered files of d.
Values(d) ==
  UNION {{d[q].data[i][2] : i \in 1..Len(d[q].data)} : q \in Considered(d)}

Returned == pc \in {"ready", "done"}

\* The amount of one occurrence: the number the value is read as, multiplied by
\* 10^9 and truncated, when the pair is for id.
Occurrence(pair, id) ==
  IF pair[1] = id THEN Scale(Tokens(pair[2]).v) ELSE IZero

RECURSIVE SumOfDoc(_, _, _)
SumOfDoc(data, id, i) ==
  IF i > Len(data) THEN IZero
  ELSE IAdd(Occurrence(data[i], id), SumOfDoc(data, id, i + 1))

\* The sum over every occurrence of id in the files S of d.
RECURSIVE SumOfFiles(_, _, _)
SumOfFiles(d, S, id) ==
  IF S = {} THEN IZero
  ELSE LET q == CHOOSE x \in S : TRUE
       IN  IAdd(SumOfDoc(d[q].data, id, 1), SumOfFiles(d, S \ {q}, id))

\* How often id occurs in the considered files of d.
Occurs(d, id) ==
  Cardinality({<<q, i>> \in Considered(d) \X (1..2) :
                 i <= Len(d[q].data) /\ d[q].data[i][1] = id})

InvC2 ==
  Returned =>
    /\ \A id \in DOMAIN ledger : ledger[id] # <<>> /\ ~balance[id].neg
    /\ \A id \in DOMAIN balance :
         (balance[id].neg \/ balance[id].mag = <<>>) => id \notin DOMAIN ledger

\* A ledger is returned without an identifier whose amounts add up to zero,
\* and without one whose amounts add up to less.
WitC2 ==
  /\ pc = "ready"
  /\ \E id \in DOMAIN balance : balance[id] = IZero /\ id \notin DOMAIN ledger
  /\ Occurs(dir0, "id1") = 3

\* The configured maximum multiplied by 10^9, from its decimal digits.
MaxExact(max) ==
  NMul(DecimalOf(max).n, NPow10(9 + DecimalOf(max).x))

Ten(a) == NMulS(a, 10)

\* C3: the amount to mint is at most the balance; with randomize off it is
\* min(balance, maximum * 10^9); with randomize on it is the balance or a cap
\* below it, the cap within the band [0.8, 1.2) of maximum * 10^9, and the cap
\* of an identifier is the one its own draw gives.
InvC3 ==
  (pc = "done" /\ cmd = "mint") =>
    /\ DOMAIN to_mint = DOMAIN ledger
    /\ \A id \in DOMAIN ledger :
         /\ NLe(to_mint[id], ledger[id])
         /\ ~opts.randomize =>
              to_mint[id] = (IF NLe(ledger[id], MaxExact(opts.max)) THEN ledger[id]
                             ELSE MaxExact(opts.max))
         /\ opts.randomize =>
              /\ NLt(Ten(to_mint[id]), NMulS(MaxExact(opts.max), 12))
              /\ to_mint[id] # ledger[id] =>
                   NLe(NMulS(MaxExact(opts.max), 8), Ten(NAdd(to_mint[id], <<1>>)))
              /\ drawn[id] = FOfNat(<<1>>) =>
                   to_mint[id] = (IF NLe(ledger[id], MaxExact(opts.max)) THEN ledger[id]
                                  ELSE MaxExact(opts.max))
         /\ \A other \in DOMAIN ledger :
              (opts.randomize /\ drawn[other] = drawn[id]
               /\ NLt(to_mint[id], ledger[id]) /\ NLt(to_mint[other], ledger[other]))
                => to_mint[other] = to_mint[id]

\* A mint with randomize on caps two identifiers, each at the cap of its own
\* draw.
WitC3 ==
  /\ pc = "done"
  /\ cmd = "mint"
  /\ opts.randomize
  /\ DOMAIN ledger = Ids
  /\ drawn["id1"] # drawn["id2"]
  /\ NLt(to_mint["id1"], ledger["id1"])
  /\ NLt(to_mint["id2"], ledger["id2"])
  /\ to_mint["id1"] # to_mint["id2"]

\* The previous invocation was a mint that wrote its audit file, and this one
\* has aggregated the directory it left.
AfterMint ==
  /\ pc = "ready"
  /\ prev.pc = "done"
  /\ prev.cmd = "mint"
  /\ ~prev.opts.dry_run

\* C4: after a mint that is no dry run, read_all_jsons gives every identifier
\* of the mint plan its balance less the amount minted, and drops the
\* identifier when nothing is left.
InvC4 ==
  AfterMint =>
    \A id \in DOMAIN prev.to_mint :
      IF prev.ledger[id] = prev.to_mint[id] THEN id \notin DOMAIN ledger
      ELSE /\ id \in DOMAIN ledger
           /\ ledger[id] = NSub(prev.ledger[id], prev.to_mint[id])

\* A mint of a whole balance is followed by an aggregation that still holds
\* the identifier.
WitC4 ==
  /\ AfterMint
  /\ \E id \in DOMAIN prev.to_mint :
       prev.ledger[id] = prev.to_mint[id] /\ id \in DOMAIN ledger

Range(f) == {f[i] : i \in DOMAIN f}

\* The options but for dry_run.
Configuration(o) == [o EXCEPT !.dry_run = FALSE]

MintDone == pc = "done" /\ cmd = "mint"

\* C5: with randomize off, a mint prints the same with and without dry_run for
\* the same ledger and configuration; with dry_run the directory is left as it
\* was, and without it exactly one file, the audit file, is written.
InvC5 ==
  MintDone =>
    /\ (prev.pc = "done" /\ prev.cmd = "mint" /\ prev.ledger = ledger
        /\ Configuration(prev.opts) = Configuration(opts) /\ ~opts.randomize)
         => out = prev.out
    /\ opts.dry_run => dir = dir0
    /\ ~opts.dry_run =>
         /\ DOMAIN dir = DOMAIN dir0 \cup {AuditName(now)}
         /\ \A q \in DOMAIN dir0 \ {AuditName(now)} : dir[q] = dir0[q]
         /\ dir[AuditName(now)].kind = "doc"
         /\ {pair[1] : pair \in Range(dir[AuditName(now)].data)} = DOMAIN to_mint
         /\ Len(dir[AuditName(now)].data) = Cardinality(DOMAIN to_mint)

\* A dry run and then the same mint without dry_run, over the same ledger:
\* both print the command line, and the second writes the audit file.
WitC5 ==
  /\ MintDone
  /\ ~opts.dry_run
  /\ prev.pc = "done"
  /\ prev.cmd = "mint"
  /\ prev.opts.dry_run
  /\ Configuration(prev.opts) = Configuration(opts)
  /\ prev.ledger = ledger
  /\ out.kind = "command"
  /\ AuditName(now) \in DOMAIN dir \ DOMAIN dir0

\* The number a value is read as is more than 10^9: m * 2^e > 10^9.
Exceeds(value) ==
  LET v == Tokens(value).v
  IN  /\ Tokens(value).ok
      /\ v.k # "nan"
      /\ v.s = 0
      /\ \/ v.k = "inf"
         \/ /\ v.m # <<>>
            /\ IF v.e >= 0 THEN NLt(NPow10(9), NMul(v.m, NPow2(v.e)))
               ELSE NLt(NMul(NPow10(9), NPow2(-v.e)), v.m)

InvC7 ==
  /\ Returned =>
       /\ \A id \in DOMAIN balance : ILt(balance[id], IMake(FALSE, U64Max))
       /\ \A id \in DOMAIN ledger :
            /\ NLe(<<1>>, ledger[id])
            /\ NLe(ledger[id], NSub(U64Max, <<1>>))
            /\ balance[id] = IMake(FALSE, ledger[id])
  /\ fatal.site = 104 =>
       /\ pc = "fatal"
       /\ fatal.id \in DOMAIN balance
       /\ ~ILt(balance[fatal.id], IMake(FALSE, U64Max))

\* The program ends with "too large" for an accumulator of exactly 2^64 - 1.
WitC7 ==
  /\ pc = "fatal"
  /\ fatal.site = 104
  /\ balance[fatal.id] = IMake(FALSE, U64Max)

\* C8: every fatal termination carries a message with the offending
\* identifier or the offending path.
InvC8 == pc = "fatal" => (fatal.path # NoPath \/ fatal.id # "")

\* The program ends on a directory entry without an extension.
WitC8 == pc = "fatal" /\ fatal.site = 69

\* The text is a decimal number: an optional sign and digits, with an
\* optional point and exponent.
IsDecimal(t) ==
  /\ t # <<>>
  /\ DecimalOf(IF Head(t) \in {"+", "-"} THEN Tail(t) ELSE t).ok

\* A JSON number, or a string that is a decimal number once its commas are
\* removed.
IsAmount(value) ==
  \/ value.t = "num"
  \/ value.t = "str" /\ IsDecimal(StripCommas(value.txt))

\* C9: when a considered file holds a value that is no amount, the program
\* ends fatally: no ledger is returned, nothing is printed and no audit file
\* is written.
InvC9 ==
  (\E value \in Values(dir0) : ~IsAmount(value)) =>
    /\ ~Returned
    /\ out = NoOut
    /\ dir = dir0

\* A ledger is returned from a file with the string "NaN" for a value.
WitC9 ==
  /\ pc = "ready"
  /\ \E value \in Values(dir0) : value = Str(<<"N", "a", "N">>)

\* C10: the amounts minted for an identifier by the mints that are no dry run
\* never add up to more than the balance the first aggregation gave it.
InvC10 ==
  \A id \in Ids :
    NLe(minted[id], IF id \in DOMAIN orig THEN orig[id] ELSE <<>>)

\* Two mints in the same second are followed by a third invocation.
WitC10 ==
  /\ run = 3
  /\ prev.cmd = "mint"
  /\ prev.now = now
  /\ pc = "ready"
  /\ AuditName(now) \in DOMAIN dir0

====
